---- MODULE Spec2Model ----
(***************************************************************************)
(* A model of the delve debugging engine (package proctl): the debug       *)
(* session (DebuggedProcess), its breakpoint table, the per-thread         *)
(* operations (ThreadContext) and the traced target they act on.           *)
(*                                                                         *)
(* The session and the target are kept in one record, the "world" w, so    *)
(* that the engine's functions can be written as operators from a world    *)
(* to a result [w, err, ...] and composed in the order the code calls      *)
(* them.  The variable world holds the current world; the variables pc,    *)
(* todo, curg, ... hold the position of the controller inside a session    *)
(* operation that is blocked or has been descheduled.                      *)
(***************************************************************************)
EXTENDS Integers, Sequences, FiniteSets, TLC

VARIABLES world, pc, loc, last, hist, nops

vars == <<world, pc, loc, last, hist, nops>>

\* ------------------------------------------------------------------ bounds

\* The breakpoint id counter is capped: no breakpoint is created once it
\* has reached MaxID.
MaxID == 6

\* The user calls at most MaxOps operations of the session in a run, not
\* counting the calls of Break.
MaxOps == 3

\* The task list of the target has at most MaxG slots.
MaxG == 2

\* ----------------------------------------------------------- the target

\* type DebuggedProcess: HWBreakPoints [4]*BreakPoint
NumHWSlots == 4

Slots == 0 .. (NumHWSlots - 1)

\* The traced process has two OS threads; thread 1 is the thread group
\* leader (its id is the pid).
Threads == {1, 2}

\* The text of the target, one single-byte instruction per address:
\*   0,1,2  main.testnext   (f.go, lines 1,2,3; 1 branches back to 0; 2 returns)
\*   3      runtime.goexit  (asm)
\*   4,5,6  runtime.getg    (entry 4, end 7)
\*   7,8    runtime.breakpoint (7 holds the trap instruction itself, 8 returns)
\*   9      runtime.futex   (a thread sleeping in the system call stays here)
\*   10,11  main.helper     (f.go, lines 5,6; line 5 is a loop on one line,
\*                          line 6 defines a closure and returns)
\*   12,13  main.helper.func1 (the closure of line 6, a frame of its own)
Addr == 0 .. 13

\* Addresses at which the user asks for breakpoints.
UserAddrs == {1, 6}

\* The INT 3 instruction, 0xCC.
TrapByte == 204

\* The bytes of the target text before any breakpoint is written.
OrigMem == [a \in Addr |-> IF a = 7 THEN TrapByte ELSE 16 + a]

Funcs == {
    [Name |-> "main.testnext",      Entry |-> 0, End |-> 3, File |-> "f.go"],
    [Name |-> "runtime.goexit",     Entry |-> 3, End |-> 4, File |-> "asm.s"],
    [Name |-> "runtime.getg",       Entry |-> 4, End |-> 7, File |-> "asm.s"],
    [Name |-> "runtime.breakpoint", Entry |-> 7, End |-> 9, File |-> "asm.s"],
    [Name |-> "runtime.futex",      Entry |-> 9, End |-> 10, File |-> "asm.s"],
    [Name |-> "main.helper",        Entry |-> 10, End |-> 12, File |-> "f.go"],
    [Name |-> "main.helper.func1",  Entry |-> 12, End |-> 14, File |-> "f.go"] }

NoFunc == [Name |-> "", Entry |-> 0, End |-> 0, File |-> ""]

\* gosym.Table.PCToFunc / LookupFunc
PCToFunc(a) ==
    IF \E f \in Funcs : f.Entry <= a /\ a < f.End
    THEN CHOOSE f \in Funcs : f.Entry <= a /\ a < f.End
    ELSE NoFunc

LookupFunc(name) ==
    IF \E f \in Funcs : f.Name = name
    THEN CHOOSE f \in Funcs : f.Name = name
    ELSE NoFunc

\* ------------------------------------------------------------ breakpoints

\* type BreakPoint: ID, Addr, OriginalData []byte, Temp.  OriginalData is
\* <<>> for a hardware breakpoint and <<b>> for a software one.
NoBP == [ID |-> 0, Addr |-> 0, OriginalData |-> <<>>, Temp |-> FALSE]

IsBP(bp) == bp.ID # 0

NoErr == "nil"

\* F(v): the value v is computed once and named inside F.
Let(v, F(_)) == F(v)

\* An unarmed debug register.
NoAddr == 0 - 1

\* A ptrace request on thread tid succeeds only while the process exists
\* and the thread is in ptrace-stop.
PtraceOK(w, tid) == ~w.gone /\ w.tst[tid] = "stopped"

\* FindBreakpoint without its lookup in the software map.
FindBreakpointHWOnly(w, a) ==
    IF \E i \in Slots : IsBP(w.HW[i]) /\ w.HW[i].Addr = a
    THEN w.HW[CHOOSE i \in Slots : IsBP(w.HW[i]) /\ w.HW[i].Addr = a]
    ELSE NoBP

\* DebuggedProcess.FindBreakpoint
FindBreakpoint(w, a) ==
    IF \E i \in Slots : IsBP(w.HW[i]) /\ w.HW[i].Addr = a
    THEN w.HW[CHOOSE i \in Slots : IsBP(w.HW[i]) /\ w.HW[i].Addr = a
                /\ \A j \in Slots : (IsBP(w.HW[j]) /\ w.HW[j].Addr = a) => i <= j]
    ELSE IF a \in Addr /\ IsBP(w.BPs[a]) THEN w.BPs[a]
    ELSE NoBP

\* The software map lookup dbp.BreakPoints[a] (a may be pc-1 = -1).
SWAt(w, a) == IF a \in Addr THEN w.BPs[a] ELSE NoBP

FreeSlots(w) == {i \in Slots : ~IsBP(w.HW[i])}

LowestFree(w) == CHOOSE i \in FreeSlots(w) : \A j \in FreeSlots(w) : i <= j

\* newBreakpoint issuing the current value of the counter again.
newBreakpointSameID(w, a, data) ==
    [ID |-> IF w.idc = 0 THEN 1 ELSE w.idc, Addr |-> a, OriginalData |-> data,
     Temp |-> FALSE]

\* newBreakpoint: the next id is issued.
newBreakpoint(w, a, data) ==
    [ID |-> w.idc + 1, Addr |-> a, OriginalData |-> data, Temp |-> FALSE]

\* setBreakpoint without the test for a breakpoint already at the address.
setBreakpointNoCheck(w, tid, a) ==
    IF w.hwok /\ FreeSlots(w) # {}
    THEN IF ~PtraceOK(w, tid)
         THEN [w |-> w, err |-> "PtraceError", bp |-> NoBP]
         ELSE LET i  == LowestFree(w)
                  nb == newBreakpoint(w, a, <<>>)
              IN [w |-> [w EXCEPT !.HW[i] = nb, !.idc = nb.ID,
                                  !.dr[tid][i] = a],
                  err |-> NoErr, bp |-> nb]
    ELSE IF ~PtraceOK(w, tid)
         THEN [w |-> w, err |-> "PtraceError", bp |-> NoBP]
         ELSE LET nb == newBreakpoint(w, a, <<w.mem[a]>>)
              IN [w |-> [w EXCEPT !.BPs[a] = nb, !.idc = nb.ID,
                                  !.mem[a] = TrapByte],
                  err |-> NoErr, bp |-> nb]

\* DebuggedProcess.setBreakpoint(tid, addr).
setBreakpoint(w, tid, a) ==
    IF IsBP(FindBreakpoint(w, a))
    THEN [w |-> w, err |-> "BreakPointExistsError", bp |-> NoBP]
    ELSE IF w.hwok /\ FreeSlots(w) # {}
    THEN IF ~PtraceOK(w, tid)
         THEN [w |-> w, err |-> "PtraceError", bp |-> NoBP]
         ELSE LET i  == LowestFree(w)
                  nb == newBreakpoint(w, a, <<>>)
              IN [w |-> [w EXCEPT !.HW[i] = nb, !.idc = nb.ID,
                                  !.dr[tid][i] = a],
                  err |-> NoErr, bp |-> nb]
    ELSE IF ~PtraceOK(w, tid)
         THEN [w |-> w, err |-> "PtraceError", bp |-> NoBP]
         ELSE LET nb == newBreakpoint(w, a, <<w.mem[a]>>)
              IN [w |-> [w EXCEPT !.BPs[a] = nb, !.idc = nb.ID,
                                  !.mem[a] = TrapByte],
                  err |-> NoErr, bp |-> nb]

\* clearBreakpoint without the write that restores the original byte.
clearBreakpointNoRestore(w, tid, a) ==
    IF \E i \in Slots : IsBP(w.HW[i]) /\ w.HW[i].Addr = a
    THEN LET i  == CHOOSE i \in Slots : IsBP(w.HW[i]) /\ w.HW[i].Addr = a
             w1 == [w EXCEPT !.HW[i] = NoBP]
         IN IF ~PtraceOK(w, tid)
            THEN [w |-> w1, err |-> "PtraceError", bp |-> NoBP]
            ELSE [w |-> [w1 EXCEPT !.dr[tid][i] = NoAddr],
                  err |-> NoErr, bp |-> w.HW[i]]
    ELSE IF IsBP(SWAt(w, a))
    THEN IF ~PtraceOK(w, tid)
         THEN [w |-> w, err |-> "PtraceError", bp |-> NoBP]
         ELSE [w |-> [w EXCEPT !.BPs[a] = NoBP], err |-> NoErr, bp |-> w.BPs[a]]
    ELSE [w |-> w, err |-> "NoBreakpointError", bp |-> NoBP]

\* DebuggedProcess.clearBreakpoint(tid, addr).  The hardware slot is
\* emptied before the debug register is disarmed; the software record is
\* deleted only after the original byte was written back.
clearBreakpoint(w, tid, a) ==
    IF \E i \in Slots : IsBP(w.HW[i]) /\ w.HW[i].Addr = a
    THEN LET i  == CHOOSE i \in Slots : IsBP(w.HW[i]) /\ w.HW[i].Addr = a
                      /\ \A j \in Slots : (IsBP(w.HW[j]) /\ w.HW[j].Addr = a) => i <= j
             w1 == [w EXCEPT !.HW[i] = NoBP]
         IN IF ~PtraceOK(w, tid)
            THEN [w |-> w1, err |-> "PtraceError", bp |-> NoBP]
            ELSE [w |-> [w1 EXCEPT !.dr[tid][i] = NoAddr],
                  err |-> NoErr, bp |-> w.HW[i]]
    ELSE IF IsBP(SWAt(w, a))
    THEN LET bp == w.BPs[a]
         IN IF ~PtraceOK(w, tid)
            THEN [w |-> w, err |-> "PtraceError", bp |-> NoBP]
            ELSE [w |-> [w EXCEPT !.mem[a] = bp.OriginalData[1],
                                  !.BPs[a] = NoBP],
                  err |-> NoErr, bp |-> bp]
    ELSE [w |-> w, err |-> "NoBreakpointError", bp |-> NoBP]

\* DebuggedProcess.Break / DebuggedProcess.Clear: through the current thread.
Break(w, a) == setBreakpoint(w, w.CT, a)

Clear(w, a) == clearBreakpoint(w, w.CT, a)

\* ------------------------------------------------- the target's execution

\* Each thread's frame holds its return address as 8 little-endian bytes at
\* SP + ReturnAddressOffset: thread 1 runs a goroutine whose top function
\* returns into runtime.goexit, thread 2 returns into its caller, which
\* goes on to runtime.breakpoint().
StackBytes(t) ==
    IF t = 1 THEN <<3, 0, 0, 0, 0, 0, 0, 0>> ELSE <<7, 0, 0, 0, 0, 0, 0, 0>>

RECURSIVE LittleEndianUint64(_)
\* binary.LittleEndian.Uint64
LittleEndianUint64(data) ==
    IF data = <<>> THEN 0
    ELSE data[1] + 256 * LittleEndianUint64(Tail(data))

\* The tasklet running on each thread (read by parseG from the thread's stack).
GOf(t) == 10 + t

\* The address the instruction at a passes control to; br says whether the
\* conditional branch at 1 is taken, and whether the sleep at 9 goes on.
Successor(a, t, br) ==
    CASE a = 0 -> 1
      [] a = 1 -> IF br THEN 0 ELSE 2
      [] a = 2 -> LittleEndianUint64(StackBytes(t))
      [] a = 4 -> 5
      [] a = 5 -> 6
      [] a = 9 -> IF br THEN 9 ELSE 0
      [] a = 10 -> IF br THEN 10 ELSE 11
      [] a = 11 -> LittleEndianUint64(StackBytes(t))
      [] a = 12 -> 13
      [] OTHER -> 0

\* One instruction of thread t.  A hardware breakpoint armed on t traps
\* before the instruction (PC unchanged; the resume flag lets the next
\* attempt pass); the trap byte traps after it (PC past the byte);
\* runtime.goexit ends the process.  trapped[t] is the address of the trap
\* byte when that is the last thing the thread has executed.
Exec1(w, t, br) ==
    LET a == w.tpc[t]
    IN IF ~w.rf[t] /\ \E i \in Slots : w.dr[t][i] = a
       THEN [w |-> [w EXCEPT !.rf[t] = TRUE], what |-> "trap"]
       ELSE IF w.mem[a] = TrapByte
       THEN [w |-> [w EXCEPT !.tpc[t] = a + 1, !.rf[t] = FALSE, !.trapped[t] = a],
             what |-> "trap"]
       ELSE IF a = 3
       THEN [w |-> [w EXCEPT !.gone = TRUE, !.rf[t] = FALSE,
                             !.tst = [u \in Threads |-> "exited"],
                             !.pend = [u \in Threads |-> IF u = 1 THEN "exit" ELSE ""]],
             what |-> "exit"]
       ELSE [w |-> [w EXCEPT !.tpc[t] = Successor(a, t, br), !.rf[t] = FALSE,
                             !.trapped[t] = NoAddr],
             what |-> "ran"]

\* ----------------------------------------------------- ThreadContext

\* ThreadContext.CurrentPC (Registers, PC)
CurrentPC(w, t) ==
    IF PtraceOK(w, t) THEN [pc |-> w.tpc[t], err |-> NoErr]
    ELSE [pc |-> 0, err |-> "RegisterError"]

\* ThreadContext.SetPC
SetPC(w, t, a) ==
    IF PtraceOK(w, t) THEN [w |-> [w EXCEPT !.tpc[t] = a], err |-> NoErr]
    ELSE [w |-> w, err |-> "RegisterError"]

\* singleStep: PTRACE_SINGLESTEP, then wait for this thread (whose stop is
\* thereby reported).  sfail: the platform refuses the request.
singleStep(w, t, br) ==
    IF ~PtraceOK(w, t) \/ w.sfail THEN [w |-> w, err |-> "PtraceError"]
    ELSE Let(Exec1(w, t, br), LAMBDA x :
         [w |-> IF x.what = "exit"
                THEN x.w
                ELSE [x.w EXCEPT !.pend[t] = ""],
          err |-> NoErr])

\* resume: PTRACE_CONT.
resume(w, t) ==
    IF ~PtraceOK(w, t) THEN [w |-> w, err |-> "PtraceError"]
    ELSE [w |-> [w EXCEPT !.tst[t] = "running", !.pend[t] = ""], err |-> NoErr]

\* The deferred function of ThreadContext.Step: Break(bp.Addr), then
\* nbp.Temp = bp.Temp, which dereferences nil when Break failed.
StepRestore(w, bp) ==
    Let(Break(w, bp.Addr), LAMBDA b :
        IF b.err # NoErr THEN [w |-> b.w, err |-> "panic"]
        ELSE [w |-> IF \E i \in Slots : b.w.HW[i] = b.bp
                    THEN [b.w EXCEPT !.HW[CHOOSE i \in Slots : b.w.HW[i] = b.bp].Temp = bp.Temp]
                    ELSE [b.w EXCEPT !.BPs[bp.Addr].Temp = bp.Temp],
              err |-> NoErr])

\* ThreadContext.Step, on a thread that has just executed the trap byte
\* of software breakpoint bp: the breakpoint is cleared, the PC is set
\* back, the instruction is stepped and the deferred function runs.
StepOver(w, t, br, bp) ==
    Let(Clear(w, bp.Addr), LAMBDA c :
        IF c.err # NoErr THEN [w |-> c.w, err |-> c.err]
        ELSE Let(SetPC(c.w, t, bp.Addr), LAMBDA sp :
             IF sp.err # NoErr THEN [w |-> sp.w, err |-> "SetRegistersError"]
             ELSE StepRestore(singleStep(sp.w, t, br).w, bp)))

\* ThreadContext.Step
Step(w, t, br) ==
    Let(CurrentPC(w, t), LAMBDA p :
        IF p.err # NoErr THEN [w |-> w, err |-> p.err]
        ELSE IF IsBP(SWAt(w, p.pc - 1))
        THEN StepOver(w, t, br, SWAt(w, p.pc - 1))
        ELSE Let(singleStep(w, t, br), LAMBDA s :
             [w |-> s.w, err |-> IF s.err = NoErr THEN NoErr ELSE "StepFailed"]))

\* ThreadContext.Continue
Continue(w, t, br) ==
    Let(CurrentPC(w, t), LAMBDA p :
        IF p.err # NoErr THEN [w |-> w, err |-> p.err]
        ELSE IF IsBP(SWAt(w, p.pc - 1))
        THEN Let(Step(w, t, br), LAMBDA s :
             IF s.err = "panic" THEN s
             ELSE IF s.err # NoErr THEN [w |-> s.w, err |-> "CouldNotStep"]
             ELSE resume(s.w, t))
        ELSE resume(w, t))

\* ------------------------------------------------ DebuggedProcess: waiting

\* ThreadContext.Halt: a running thread is sent the stop signal and stops;
\* the stop is reported to a later wait.
threadHalt(w, t) ==
    IF w.tst[t] = "running"
    THEN [w EXCEPT !.tst[t] = "stopped", !.pend[t] = "stop"]
    ELSE w

RECURSIVE haltAll(_, _)
haltAll(w, ts) ==
    IF ts = {} THEN w
    ELSE LET t == CHOOSE t \in ts : TRUE
         IN haltAll(threadHalt(w, t), ts \ {t})

\* DebuggedProcess.Halt
Halt(w) == [w |-> haltAll(w, Threads), err |-> NoErr]

\* DebuggedProcess.RequestManualStop
RequestManualStop(w) ==
    [haltAll([w EXCEPT !.halt = TRUE], Threads) EXCEPT !.running = FALSE]

\* What wait(-1) can return: a thread whose stop (by a trap, by the stop
\* signal) or whose exit has not been reported yet.
Events(w) == {[tid |-> t, kind |-> w.pend[t]] : t \in {u \in Threads : w.pend[u] # ""}}

\* DebuggedProcess.handleBreakpointOnThread
handleBreakpointOnThread(w, id) ==
    Let(CurrentPC(w, id), LAMBDA p :
        IF p.err # NoErr THEN [w |-> w, err |-> p.err, thread |-> 0]
        ELSE IF \E i \in Slots : IsBP(w.HW[i]) /\ w.HW[i].Addr = p.pc
        THEN [w |-> [w EXCEPT !.CB = FindBreakpoint(w, p.pc)],
              err |-> NoErr, thread |-> id]
        ELSE IF IsBP(SWAt(w, p.pc - 1))
        THEN [w |-> [w EXCEPT !.CB = SWAt(w, p.pc - 1)], err |-> NoErr, thread |-> id]
        ELSE [w |-> w, err |-> NoErr, thread |-> id])

\* trapWait(dbp, -1), for the event e that wait returns.  again: the event
\* is not one trapWait returns for, and it waits again.
trapWait(w, e) ==
    LET w1 == [w EXCEPT !.pend[e.tid] = ""]
    IN CASE e.kind = "exit" ->
              [w |-> [w1 EXCEPT !.exited = TRUE], err |-> "ProcessExitedError",
               thread |-> 0, again |-> FALSE]
         [] e.kind = "trap" ->
              Let(handleBreakpointOnThread(w1, e.tid), LAMBDA h :
                  [w |-> h.w, err |-> h.err, thread |-> h.thread, again |-> FALSE])
         [] e.kind = "stop" /\ w.halt ->
              [w |-> w1, err |-> "ManualStopError", thread |-> 0, again |-> FALSE]
         [] OTHER ->
              [w |-> w1, err |-> NoErr, thread |-> 0, again |-> TRUE]

\* DebuggedProcess.SwitchThread
SwitchThread(w, tid) ==
    IF tid \in Threads THEN [w EXCEPT !.CT = tid] ELSE w

\* run without its three assignments before the call of fn.
runEnterNoReset(w) ==
    IF w.exited THEN [w |-> w, err |-> "AlreadyExited"]
    ELSE [w |-> w, err |-> NoErr]

\* DebuggedProcess.run, up to the call of fn.
runEnter(w) ==
    IF w.exited THEN [w |-> w, err |-> "AlreadyExited"]
    ELSE [w |-> [w EXCEPT !.running = TRUE, !.halt = FALSE, !.CB = NoBP],
          err |-> NoErr]

\* DebuggedProcess.run, from the return of fn with err: the deferred
\* running = false, and ManualStopError demoted to success.
runExit(w, err) ==
    [w |-> [w EXCEPT !.running = FALSE],
     err |-> IF err = "ManualStopError" THEN NoErr ELSE err]

\* DebuggedProcess.resume, after trapWait returned thread t and the session
\* switched to it: the stop is classified by the current breakpoint and the
\* PC of the thread.
resumeStopped(w, t, br) ==
    Let(CurrentPC(w, t), LAMBDA p :
        IF p.err # NoErr THEN [w |-> w, err |-> p.err]
        ELSE IF IsBP(w.CB) /\ ~w.CB.Temp THEN Halt(w)
        ELSE IF PCToFunc(p.pc).Name = "runtime.breakpoint"
        THEN Let(Step(w, t, br), LAMBDA s1 :
                 IF s1.err # NoErr THEN s1
                 ELSE Let(Step(s1.w, t, br), LAMBDA s2 :
                          IF s2.err # NoErr THEN s2 ELSE Halt(s2.w)))
        ELSE [w |-> w, err |-> "UnrecognizedBreakpoint"])

\* DebuggedProcess.resume (the work function of Continue), from the event
\* e that its trapWait got.  again: trapWait goes on waiting.
dbpResume(w, e, br) ==
    Let(trapWait(w, e), LAMBDA tw :
        IF tw.again THEN [w |-> tw.w, err |-> NoErr, again |-> TRUE]
        ELSE IF tw.err # NoErr THEN [w |-> tw.w, err |-> tw.err, again |-> FALSE]
        ELSE Let(resumeStopped(SwitchThread(tw.w, tw.thread), tw.thread, br[tw.thread]),
                 LAMBDA r : [w |-> r.w, err |-> r.err, again |-> FALSE]))

\* ThreadContext.blocked: the thread is inside the system call.
blocked(w, t) == PCToFunc(w.tpc[t]).Name = "runtime.futex"

RECURSIVE stepAll(_, _, _)
\* The work function of DebuggedProcess.Step, over the threads in order.
stepAll(w, order, br) ==
    IF order = <<>> THEN [w |-> w, err |-> NoErr]
    ELSE IF blocked(w, Head(order)) THEN stepAll(w, Tail(order), br)
    ELSE Let(Step(w, Head(order), br[Head(order)]), LAMBDA s :
             IF s.err # NoErr THEN s ELSE stepAll(s.w, Tail(order), br))

\* ------------------------------------------------ temp breakpoints, CallFn

\* No CallFn in progress.
NoCall == [t |-> 0, bp |-> 0, regs |-> <<0, FALSE>>]

\* saveRegisters keeps the registers of the thread in the call; the
\* deferred restoreRegisters writes them back (its error is dropped).
restoreRegisters(w, call) ==
    IF PtraceOK(w, call.t)
    THEN [w EXCEPT !.tpc[call.t] = call.regs[1], !.rf[call.t] = call.regs[2]]
    ELSE w

RECURSIVE clearTempHW(_, _, _)
\* The first loop of clearTempBreakpoints, over the slots of the array as
\* it was when the loop started, from slot i on.
clearTempHW(w, snap, i) ==
    IF i \notin Slots THEN [w |-> w, err |-> NoErr]
    ELSE IF IsBP(snap[i]) /\ snap[i].Temp
    THEN Let(Clear(w, snap[i].Addr), LAMBDA c :
             IF c.err # NoErr THEN [w |-> c.w, err |-> c.err]
             ELSE clearTempHW(c.w, snap, i + 1))
    ELSE clearTempHW(w, snap, i + 1)

RECURSIVE clearTempSW(_, _)
\* The second loop of clearTempBreakpoints, over the addresses as of the map.
clearTempSW(w, as) ==
    IF as = {} THEN [w |-> w, err |-> NoErr]
    ELSE LET a == CHOOSE a \in as : TRUE
         IN IF IsBP(w.BPs[a]) /\ w.BPs[a].Temp
            THEN Let(Clear(w, a), LAMBDA c :
                     IF c.err # NoErr THEN [w |-> c.w, err |-> c.err]
                     ELSE clearTempSW(c.w, as \ {a}))
            ELSE clearTempSW(w, as \ {a})

\* clearTempBreakpoints without its second loop, over the software map.
clearTempBreakpointsHWOnly(w) == clearTempHW(w, w.HW, 0)

\* DebuggedProcess.clearTempBreakpoints
clearTempBreakpoints(w) ==
    Let(clearTempHW(w, w.HW, 0), LAMBDA h :
        IF h.err # NoErr THEN h
        ELSE clearTempSW(h.w, {a \in Addr : IsBP(h.w.BPs[a])}))

\* ThreadContext.clearTempBreakpoint
clearTempBreakpoint(w, t, a) ==
    IF (\E i \in Slots : IsBP(w.HW[i]) /\ w.HW[i].Temp /\ w.HW[i].Addr = a)
       \/ (IsBP(SWAt(w, a)) /\ SWAt(w, a).Temp)
    THEN Let(Clear(w, a), LAMBDA c :
             IF c.err # NoErr THEN [w |-> c.w, err |-> c.err]
             ELSE SetPC(c.w, t, a))
    ELSE [w |-> w, err |-> NoErr]

\* ThreadContext.CallFn("runtime.getg", fn) up to its trapWait.  The result
\* says whether the call is now waiting (err = nil) or has returned err,
\* with its deferred calls run.  call holds what the call keeps for its
\* return: the thread, the breakpoint's address and the saved registers.
CallFnStart(w, t, br) ==
    Let(setBreakpoint(w, t, LookupFunc("runtime.getg").End - 2), LAMBDA b :
        IF b.err # NoErr THEN [w |-> b.w, err |-> b.err, call |-> NoCall]
        ELSE Let([t |-> t, bp |-> b.bp.Addr, regs |-> <<b.w.tpc[t], b.w.rf[t]>>],
                 LAMBDA call :
             Let(SetPC(b.w, t, LookupFunc("runtime.getg").Entry), LAMBDA sp :
                 IF sp.err # NoErr
                 THEN [w |-> Clear(sp.w, call.bp).w, err |-> sp.err, call |-> NoCall]
                 ELSE Let(Continue(sp.w, t, br), LAMBDA c :
                      IF c.err = "panic" THEN [w |-> c.w, err |-> c.err, call |-> NoCall]
                      ELSE IF c.err # NoErr
                      THEN [w |-> Clear(restoreRegisters(c.w, call), call.bp).w,
                            err |-> c.err, call |-> NoCall]
                      ELSE [w |-> c.w, err |-> NoErr, call |-> call]))))

\* ThreadContext.CallFn from the event e its trapWait got: the callback of
\* curG reads the tasklet of the thread from its stack, then the deferred
\* restoreRegisters and Clear run.  g = 0: no tasklet was read.
CallFnFinish(w, call, e) ==
    Let(trapWait(w, e), LAMBDA tw :
        IF tw.again THEN [w |-> tw.w, err |-> NoErr, g |-> 0, again |-> TRUE]
        ELSE [w |-> Clear(restoreRegisters(tw.w, call), call.bp).w,
              err |-> IF tw.err # NoErr THEN tw.err
                      ELSE IF ~PtraceOK(tw.w, call.t) THEN "RegisterError"
                      ELSE NoErr,
              g |-> IF tw.err = NoErr /\ PtraceOK(tw.w, call.t) THEN GOf(call.t) ELSE 0,
              again |-> FALSE])

\* ------------------------------------------------ ThreadContext.Next

\* The line table of f.go: the line of each PC.
LineOf(a) ==
    CASE a \in 0 .. 2 -> a + 1
      [] a = 10 -> 5
      [] a \in 11 .. 13 -> 6
      [] OTHER -> 1

\* gosym.Table.PCToLine: file and line of a PC.
PCToLine(a) ==
    [File |-> PCToFunc(a).File, Line |-> IF PCToFunc(a).File = "f.go" THEN LineOf(a) ELSE 1]

\* line.DebugLineInfo.AllPCsForFileLine: the PCs at which the line table
\* begins the line, in address order.
AllPCsForFileLine(file, l) ==
    CASE file = "f.go" /\ l \in 1 .. 3 -> <<l - 1>>
      [] file = "f.go" /\ l = 5 -> <<10>>
      [] file = "f.go" /\ l = 6 -> <<11, 12>>
      [] OTHER -> <<>>

\* source.Searcher.NextLines: line 2 branches back to line 1 or falls
\* through to line 3, the last line of the function; line 5 loops on
\* itself or goes on to line 6, the last line of its function.
NextLines(file, l) ==
    CASE file = "f.go" /\ l = 1 -> <<2>>
      [] file = "f.go" /\ l = 2 -> <<1, 3>>
      [] file = "f.go" /\ l = 5 -> <<5, 6>>
      [] OTHER -> <<>>

\* filepath.Ext of the files of the target.
Ext(file) == IF file = "f.go" THEN ".go" ELSE ".s"

\* frame.FrameDescriptionEntry.Cover, for the entry of function fde.
Cover(fde, a) == fde.Entry <= a /\ a < fde.End

\* ThreadContext.ReturnAddressFromOffset
ReturnAddressFromOffset(w, t) == LittleEndianUint64(StackBytes(t))

RECURSIVE SeqConcat(_)
SeqConcat(ss) == IF ss = <<>> THEN <<>> ELSE Head(ss) \o SeqConcat(Tail(ss))

RECURSIVE setTempsNoCover(_, _, _, _, _)
\* The loops of ThreadContext.next without the test that the frame covers
\* the PC: the breakpoint is always set at the PC itself.
setTempsNoCover(w, t, pcs, curpc, fde) ==
    IF pcs = <<>> THEN [w |-> w, err |-> NoErr]
    ELSE IF Head(pcs) = curpc THEN setTempsNoCover(w, t, Tail(pcs), curpc, fde)
    ELSE Let(Break(w, Head(pcs)), LAMBDA b :
             IF b.err = "BreakPointExistsError"
             THEN setTempsNoCover(w, t, Tail(pcs), curpc, fde)
             ELSE IF b.err # NoErr THEN [w |-> b.w, err |-> b.err]
             ELSE setTempsNoCover(
                      IF \E i \in Slots : b.w.HW[i] = b.bp
                      THEN [b.w EXCEPT !.HW[CHOOSE i \in Slots : b.w.HW[i] = b.bp].Temp = TRUE]
                      ELSE [b.w EXCEPT !.BPs[Head(pcs)].Temp = TRUE],
                      t, Tail(pcs), curpc, fde))

RECURSIVE setTempsMarkExisting(_, _, _, _, _)
\* The loops of ThreadContext.next setting Temp also on the breakpoint
\* that already holds the chosen address.
setTempsMarkExisting(w, t, pcs, curpc, fde) ==
    IF pcs = <<>> THEN [w |-> w, err |-> NoErr]
    ELSE IF Head(pcs) = curpc THEN setTempsMarkExisting(w, t, Tail(pcs), curpc, fde)
    ELSE Let(IF Cover(fde, Head(pcs)) THEN Head(pcs)
             ELSE ReturnAddressFromOffset(w, t), LAMBDA a :
         Let(Break(w, a), LAMBDA b :
             IF b.err # NoErr /\ b.err # "BreakPointExistsError"
             THEN [w |-> b.w, err |-> b.err]
             ELSE setTempsMarkExisting(
                      IF \E i \in Slots : IsBP(b.w.HW[i]) /\ b.w.HW[i].Addr = a
                      THEN [b.w EXCEPT !.HW[CHOOSE i \in Slots :
                                               IsBP(b.w.HW[i]) /\ b.w.HW[i].Addr = a].Temp = TRUE]
                      ELSE [b.w EXCEPT !.BPs[a].Temp = TRUE],
                      t, Tail(pcs), curpc, fde)))

RECURSIVE setTemps(_, _, _, _, _)
\* The loops of ThreadContext.next over the candidate PCs.
setTemps(w, t, pcs, curpc, fde) ==
    IF pcs = <<>> THEN [w |-> w, err |-> NoErr]
    ELSE IF Head(pcs) = curpc THEN setTemps(w, t, Tail(pcs), curpc, fde)
    ELSE Let(IF Cover(fde, Head(pcs)) THEN Head(pcs)
             ELSE ReturnAddressFromOffset(w, t), LAMBDA a :
         Let(Break(w, a), LAMBDA b :
             IF b.err = "BreakPointExistsError"
             THEN setTemps(w, t, Tail(pcs), curpc, fde)
             ELSE IF b.err # NoErr THEN [w |-> b.w, err |-> b.err]
             ELSE setTemps(IF \E i \in Slots : b.w.HW[i] = b.bp
                           THEN [b.w EXCEPT !.HW[CHOOSE i \in Slots : b.w.HW[i] = b.bp].Temp = TRUE]
                           ELSE [b.w EXCEPT !.BPs[a].Temp = TRUE],
                           t, Tail(pcs), curpc, fde)))

\* ThreadContext.next.  exiting: the candidate set is empty and the frame
\* returns into runtime.goexit, so that curG is called next.
next(w, t, curpc, fde, file, line) ==
    LET lines == NextLines(file, line)
    IN IF Len(lines) = 0
       THEN [w |-> w, err |-> NoErr,
             exiting |-> PCToFunc(ReturnAddressFromOffset(w, t)).Name = "runtime.goexit"]
       ELSE Let(setTemps(w, t,
                         SeqConcat([i \in 1 .. Len(lines) |-> AllPCsForFileLine(file, lines[i])]),
                         curpc, fde),
                LAMBDA r : [w |-> r.w, err |-> r.err, exiting |-> FALSE])

\* ThreadContext.cnext
cnext(w, t, curpc, fde, file, line) == [w |-> w, err |-> NoErr, exiting |-> FALSE]

\* ThreadContext.Next.  call # NoCall: the thread's next is inside curG
\* (CallFn), waiting, on its way to report GoroutineExitingError.
ThreadNext(w, t, br) ==
    Let(CurrentPC(w, t), LAMBDA p :
        IF p.err # NoErr THEN [w |-> w, err |-> p.err, call |-> NoCall]
        ELSE LET curpc == IF IsBP(SWAt(w, p.pc - 1)) THEN SWAt(w, p.pc - 1).Addr ELSE p.pc
                 fde   == PCToFunc(curpc)
                 fl    == PCToLine(curpc)
             IN IF fde = NoFunc THEN [w |-> w, err |-> "NoFDEError", call |-> NoCall]
                ELSE Let(IF Ext(fl.File) = ".go"
                         THEN next(w, t, curpc, fde, fl.File, fl.Line)
                         ELSE cnext(w, t, curpc, fde, fl.File, fl.Line), LAMBDA n :
                     IF n.err # NoErr THEN [w |-> n.w, err |-> n.err, call |-> NoCall]
                     ELSE IF n.exiting THEN CallFnStart(n.w, t, br)
                     ELSE Let(Continue(n.w, t, br), LAMBDA c :
                              [w |-> c.w, err |-> c.err, call |-> NoCall])))

\* The reads GoroutinesInfo makes of the target: the length of the task
\* list (runtime.allglen), its base pointer (runtime.allg), and the tasklet
\* record of each slot 1 .. allglen.
ReadAllglen == <<"allglen", 0>>

ReadAllg == <<"allg", 0>>

ReadG(i) == <<"g", i>>

Reads == {ReadAllglen, ReadAllg} \cup {ReadG(i) : i \in 1 .. MaxG}

\* A read through the current thread fails when that thread cannot be
\* ptraced, or when the target refuses this read (w.rfail).
ReadFails(w, r) == ~PtraceOK(w, w.CT) \/ r \in w.rfail

\* The tasklet whose record is in slot i of the task list.
AllG(i) == 10 + i

\* The tasklet parseG makes of what it reads at a slot that lies off a
\* base pointer that is not the list's.
JunkG == 0

\* The loop of GoroutinesInfo from slot i on, allg being the list so far
\* and base telling whether allgptr is the base pointer of the list.
RECURSIVE parseGs(_, _, _, _)
parseGs(w, i, base, allg) ==
    IF i > w.allglen THEN [w |-> w, allg |-> allg, err |-> NoErr]
    ELSE IF ReadFails(w, ReadG(i)) THEN [w |-> w, allg |-> <<>>, err |-> "ReadError"]
    ELSE parseGs(w, i + 1, base, Append(allg, IF base THEN AllG(i) ELSE JunkG))

\* DebuggedProcess.GoroutinesInfo: the task list is read through the
\* current thread.  The error of the read of the base pointer is not
\* looked at: its bytes are decoded as they come.  w.rnil tells whether a
\* failed readMemory returns no bytes (decoding them is an index out of
\* range) or a buffer that was not filled.
GoroutinesInfo(w) ==
    IF ReadFails(w, ReadAllglen) THEN [w |-> w, allg |-> <<>>, err |-> "ReadError"]
    ELSE IF ReadFails(w, ReadAllg) /\ w.rnil THEN [w |-> w, allg |-> <<>>, err |-> "panic"]
    ELSE parseGs(w, 1, ~ReadFails(w, ReadAllg), <<>>)

\* ------------------------------------------------------------ the session

\* The addresses that hold a breakpoint that is not temp.
NonTempAddrs(w) ==
    {w.HW[i].Addr : i \in {j \in Slots : IsBP(w.HW[j]) /\ ~w.HW[j].Temp}}
        \cup {a \in Addr : IsBP(w.BPs[a]) /\ ~w.BPs[a].Temp}

\* The addresses that hold a temp breakpoint.
TempAddrs(w) ==
    {w.HW[i].Addr : i \in {j \in Slots : IsBP(w.HW[j]) /\ w.HW[j].Temp}}
        \cup {a \in Addr : IsBP(w.BPs[a]) /\ w.BPs[a].Temp}

\* What the controller keeps while a session operation is in progress:
\* the threads its loop has still to visit, the tasklet that issued Next,
\* the CallFn it is waiting in, the thread its trapWait returned, the
\* breakpoint that thread had hit by the state of the target, the
\* addresses that held a non-temp breakpoint when Next was called, and the
\* error it is returning.
NoLoc == [todo |-> {}, curg |-> 0, call |-> NoCall, thread |-> 0, hit |-> NoBP,
          user |-> {}, err |-> NoErr]

\* The outcome of the last session operation that returned (Break and
\* SwitchThread leave no outcome): the operation,
\* its error, the address it was called with; for Continue, the breakpoint
\* and the thread of the trap that ended it and whether RequestManualStop
\* was called while it was in flight; for Next, the error of its deferred
\* clearTempBreakpoints and the number of temp breakpoints that call found,
\* and, when its wait loop ended at a trap, the thread of that trap (hitT)
\* and the breakpoint the thread had hit (hit), and the addresses that
\* held a non-temp breakpoint when it was called (user).
NoLast == [op |-> "none", err |-> NoErr, addr |-> 0, hitID |-> 0, hitT |-> 0,
           hit |-> NoBP, user |-> {}, ms |-> FALSE, cterr |-> NoErr, temps |-> 0,
           allg |-> <<>>]

\* History: the address of the last breakpoint the user set and the byte
\* that was there before; the flags as run's work function found them; whether
\* RequestManualStop was called during the Continue in flight.
NoHist == [set |-> [addr |-> NoAddr, byte |-> 0],
           fnEntry |-> [set |-> FALSE, halt |-> FALSE, running |-> FALSE, cb |-> NoBP],
           msDuring |-> FALSE]

Orders == {<<1, 2>>, <<2, 1>>}

Branches == [Threads -> BOOLEAN]

\* The session newDebugProcess returns and the target it is attached to:
\* no breakpoint, thread 1 current and stopped at PC start, thread 2 stopped
\* in the system call.
Attached(hwok, start) ==
    [HW |-> [i \in Slots |-> NoBP],
     BPs |-> [a \in Addr |-> NoBP],
     CB |-> NoBP, CT |-> 1, idc |-> 0,
     running |-> FALSE, halt |-> FALSE, exited |-> FALSE,
     mem |-> OrigMem,
     tpc |-> [t \in Threads |-> IF t = 1 THEN start ELSE 9],
     tst |-> [t \in Threads |-> "stopped"],
     rf |-> [t \in Threads |-> FALSE],
     dr |-> [t \in Threads |-> [i \in Slots |-> NoAddr]],
     pend |-> [t \in Threads |-> ""], gone |-> FALSE,
     hwok |-> hwok, sfail |-> FALSE,
     allglen |-> MaxG, rfail |-> {}, rnil |-> TRUE,
     trapped |-> [t \in Threads |-> NoAddr]]

\* newDebugProcess: the session after attach.  Every thread is in
\* ptrace-stop, thread 1 at the entry of main.testnext and thread 2 asleep
\* in a system call; the platform does or does not offer debug registers.
Init ==
    /\ \E hwok \in BOOLEAN : world = Attached(hwok, 0)
    /\ pc = "idle"
    /\ loc = NoLoc
    /\ last = NoLast
    /\ hist = NoHist
    /\ nops = 0

\* The controller returns from session operation op with err; a panic
\* ends the controller.
Return(op, w, err, l) ==
    /\ w.idc <= MaxID
    /\ world' = w
    /\ pc' = IF err = "panic" THEN "crashed" ELSE "idle"
    /\ loc' = NoLoc
    /\ last' = IF op \in {"Break", "SwitchThread"} THEN NoLast
               ELSE [l EXCEPT !.op = op, !.err = err]

\* The controller goes on inside a session operation, at position p.
Goto(w, p, l) ==
    /\ w.idc <= MaxID
    /\ world' = w
    /\ pc' = p
    /\ loc' = l
    /\ last' = NoLast

FnEntry(w) == [set |-> TRUE, halt |-> w.halt, running |-> w.running, cb |-> w.CB]

\* The user calls an operation of the session other than Break (whose
\* calls are bounded by the ids).
Call ==
    /\ nops < MaxOps
    /\ nops' = nops + 1

\* Break(addr), called by the user.
UserBreak(a) ==
    /\ pc = "idle"
    /\ UNCHANGED nops
    /\ \E r \in {Break(world, a)} :
         /\ Return("Break", r.w, r.err, NoLast)
         /\ hist' = IF r.err = NoErr
                    THEN [hist EXCEPT !.set = [addr |-> a, byte |-> world.mem[a]]]
                    ELSE hist

\* Clear(addr), called by the user.
UserClear(a) ==
    /\ pc = "idle"
    /\ Call
    /\ \E r \in {Clear(world, a)} :
         Return("Clear", r.w, r.err, [NoLast EXCEPT !.addr = a])
    /\ UNCHANGED hist

\* SwitchThread(tid), called by the user.
UserSwitchThread(t) ==
    /\ pc = "idle"
    /\ Call
    /\ world.CT # t
    /\ Return("SwitchThread", SwitchThread(world, t), NoErr, NoLast)
    /\ UNCHANGED hist

\* DebuggedProcess.Step
SessionStep(order, br) ==
    /\ pc = "idle"
    /\ Call
    /\ \E e \in {runEnter(world)} :
         IF e.err # NoErr
         THEN Return("Step", e.w, e.err, NoLast) /\ UNCHANGED hist
         ELSE \E s \in {stepAll(e.w, order, br)} :
                /\ Return("Step", runExit(s.w, s.err).w, runExit(s.w, s.err).err, NoLast)
                /\ hist' = [hist EXCEPT !.fnEntry = FnEntry(e.w)]

\* DebuggedProcess.Continue, one iteration of its loop over the threads
\* (in any order); after the last one, run is entered and resume starts
\* to wait.
SessionContinue(t, br) ==
    /\ \/ pc = "idle" /\ Call
       \/ pc = "cont_loop" /\ t \in loc.todo /\ UNCHANGED nops
    /\ \E todo \in {IF pc = "idle" THEN Threads ELSE loc.todo},
          c \in {Continue(world, t, br)} :
         IF c.err # NoErr
         THEN /\ Return("Continue", c.w, c.err, [NoLast EXCEPT !.ms = hist.msDuring])
              /\ hist' = [hist EXCEPT !.msDuring = FALSE]
         ELSE IF todo \ {t} # {}
         THEN /\ Goto(c.w, "cont_loop", [NoLoc EXCEPT !.todo = todo \ {t}])
              /\ UNCHANGED hist
         ELSE \E e \in {runEnter(c.w)} :
                IF e.err # NoErr
                THEN /\ Return("Continue", e.w, e.err, [NoLast EXCEPT !.ms = hist.msDuring])
                     /\ hist' = [hist EXCEPT !.msDuring = FALSE]
                ELSE /\ Goto(e.w, "cont_wait", NoLoc)
                     /\ hist' = [hist EXCEPT !.fnEntry = FnEntry(e.w)]

\* The breakpoint that the thread of trap event e is stopped at, by the
\* state of the thread and of the target: the hardware breakpoint whose
\* armed register matches its PC, or the software breakpoint whose trap
\* byte it has just executed.
StoppedAt(w, e) ==
    LET a == w.tpc[e.tid]
    IN IF e.kind # "trap" \/ ~PtraceOK(w, e.tid) THEN NoBP
       ELSE IF w.rf[e.tid]
       THEN IF \E i \in Slots : w.dr[e.tid][i] = a /\ IsBP(w.HW[i]) /\ w.HW[i].Addr = a
            THEN w.HW[CHOOSE i \in Slots : w.dr[e.tid][i] = a /\ IsBP(w.HW[i]) /\ w.HW[i].Addr = a]
            ELSE NoBP
       ELSE IF a - 1 \in Addr /\ w.mem[a - 1] = TrapByte THEN SWAt(w, a - 1)
       ELSE NoBP

\* DebuggedProcess.Continue: wait returns event e to resume's trapWait.
SessionContinueWait(e, br) ==
    /\ pc = "cont_wait"
    /\ UNCHANGED nops
    /\ e \in Events(world)
    /\ \E r \in {dbpResume(world, e, br)}, b \in {StoppedAt(world, e)} :
         IF r.again
         THEN Goto(r.w, pc, loc) /\ UNCHANGED hist
         ELSE /\ Return("Continue", runExit(r.w, r.err).w, runExit(r.w, r.err).err,
                        [NoLast EXCEPT !.hitID = IF b.Temp THEN 0 ELSE b.ID,
                                       !.hitT = IF IsBP(b) /\ ~b.Temp THEN e.tid ELSE 0,
                                       !.ms = hist.msDuring])
              /\ hist' = [hist EXCEPT !.msDuring = FALSE]

\* DebuggedProcess.RequestManualStop, called from another context while a
\* session operation is in flight.
ManualStop ==
    /\ pc \notin {"idle", "crashed"}
    /\ Call
    /\ world' = RequestManualStop(world)
    /\ hist' = [hist EXCEPT !.msDuring = @ \/ pc \in {"cont_loop", "cont_wait"}]
    /\ UNCHANGED <<pc, loc, last>>

\* A running thread of the target executes one instruction.
ThreadRun(t, br) ==
    /\ world.tst[t] = "running"
    /\ ~world.gone
    /\ \E x \in {Exec1(world, t, br)} :
         world' = IF x.what = "trap"
                  THEN [x.w EXCEPT !.tst[t] = "stopped", !.pend[t] = "trap"]
                  ELSE x.w
    /\ UNCHANGED <<pc, loc, last, hist, nops>>

\* ------------------------------------------------- DebuggedProcess.Next

\* next has registered its deferred clearTempBreakpoints and returns err:
\* the controller is at the deferred call.
ToDefer(w, err) ==
    Goto(w, "next_defer", [NoLoc EXCEPT !.err = err, !.user = loc.user])

\* DebuggedProcess.Next: run is entered and next calls curG on the current
\* thread, which waits in CallFn.
SessionNext(br) ==
    /\ pc = "idle"
    /\ Call
    /\ \E e \in {runEnter(world)} :
         IF e.err # NoErr
         THEN Return("Next", e.w, e.err, NoLast) /\ UNCHANGED hist
         ELSE \E c \in {CallFnStart(e.w, e.w.CT, br)} :
                /\ hist' = [hist EXCEPT !.fnEntry = FnEntry(e.w)]
                /\ IF c.err # NoErr
                   THEN Return("Next", runExit(c.w, c.err).w, runExit(c.w, c.err).err,
                               [NoLast EXCEPT !.user = NonTempAddrs(world)])
                   ELSE Goto(c.w, "next_curg",
                             [NoLoc EXCEPT !.call = c.call, !.user = NonTempAddrs(world)])

\* next: the curG of the current thread returns; GoroutinesInfo; the loop
\* over the threads begins.
SessionNextCurG(e) ==
    /\ pc = "next_curg"
    /\ e \in Events(world)
    /\ \E f \in {CallFnFinish(world, loc.call, e)} :
         IF f.again THEN Goto(f.w, pc, loc)
         ELSE IF f.err # NoErr
         THEN Return("Next", runExit(f.w, f.err).w, runExit(f.w, f.err).err,
                     [NoLast EXCEPT !.user = loc.user])
         ELSE \E g \in {GoroutinesInfo(f.w)} :
                IF g.err # NoErr THEN ToDefer(g.w, g.err)
                ELSE Goto(g.w, "next_loop",
                          [NoLoc EXCEPT !.todo = Threads, !.curg = f.g, !.user = loc.user])
    /\ UNCHANGED <<hist, nops>>

\* next: one iteration of the loop over the threads (in any order).  When
\* th.Next() returns an error the loop returns it at once (the test for
\* GoroutineExitingError that follows the return is never reached).
SessionNextThread(t, br) ==
    /\ pc = "next_loop"
    /\ t \in loc.todo
    /\ IF blocked(world, t)
       THEN \E c \in {Continue(world, t, br)} :
              IF c.err # NoErr THEN ToDefer(c.w, c.err)
              ELSE Goto(c.w, IF loc.todo = {t} THEN "next_wait" ELSE "next_loop",
                        [loc EXCEPT !.todo = @ \ {t}])
       ELSE \E n \in {ThreadNext(world, t, br)} :
              IF n.err # NoErr THEN ToDefer(n.w, n.err)
              ELSE IF n.call # NoCall
              THEN Goto(n.w, "next_exiting", [loc EXCEPT !.call = n.call])
              ELSE Goto(n.w, IF loc.todo = {t} THEN "next_wait" ELSE "next_loop",
                        [loc EXCEPT !.todo = @ \ {t}])
    /\ UNCHANGED <<hist, nops>>

\* next: a thread's next is reporting that its tasklet exits; its curG
\* returns and the thread's Next returns GoroutineExitingError (or the
\* error of curG) to the loop of next.
SessionNextExiting(e) ==
    /\ pc = "next_exiting"
    /\ e \in Events(world)
    /\ \E f \in {CallFnFinish(world, loc.call, e)} :
         IF f.again THEN Goto(f.w, pc, loc)
         ELSE IF f.err # NoErr THEN ToDefer(f.w, f.err)
         ELSE ToDefer(f.w, "GoroutineExitingError")
    /\ UNCHANGED <<hist, nops>>

\* next: wait returns event e to the trapWait of the loop; the temp
\* breakpoint hit is cleared and curG is called on the thread.
SessionNextWait(e, br) ==
    /\ pc = "next_wait"
    /\ e \in Events(world)
    /\ \E tw \in {trapWait(world, e)} :
         IF tw.again THEN Goto(tw.w, pc, loc)
         ELSE IF tw.err # NoErr THEN ToDefer(tw.w, tw.err)
         ELSE \E ct \in {IF IsBP(tw.w.CB)
                         THEN clearTempBreakpoint(tw.w, tw.thread, tw.w.CB.Addr)
                         ELSE [w |-> tw.w, err |-> NoErr]} :
                IF ct.err # NoErr THEN ToDefer(ct.w, ct.err)
                ELSE \E c \in {CallFnStart(ct.w, tw.thread, br)} :
                       IF c.err # NoErr THEN ToDefer(c.w, c.err)
                       ELSE Goto(c.w, "next_tg",
                                 [loc EXCEPT !.call = c.call, !.thread = tw.thread,
                                             !.hit = StoppedAt(world, e)])
    /\ UNCHANGED <<hist, nops>>

\* next: the curG of the stopped thread returns; on the tasklet that
\* issued Next the loop ends and the process is halted.
SessionNextTg(e) ==
    /\ pc = "next_tg"
    /\ e \in Events(world)
    /\ \E f \in {CallFnFinish(world, loc.call, e)} :
         IF f.again THEN Goto(f.w, pc, loc)
         ELSE IF f.err # NoErr THEN ToDefer(f.w, f.err)
         ELSE IF f.g = loc.curg
         THEN \E h \in {Halt(SwitchThread(f.w, loc.thread))} :
                Goto(h.w, "next_defer",
                     [NoLoc EXCEPT !.err = h.err, !.thread = loc.thread, !.hit = loc.hit,
                                   !.user = loc.user])
         ELSE Goto(f.w, "next_wait",
                   [loc EXCEPT !.call = NoCall, !.thread = 0, !.hit = NoBP])
    /\ UNCHANGED <<hist, nops>>

\* next returns: the deferred clearTempBreakpoints (its error is dropped),
\* then the deferred function of run.
SessionNextDefer ==
    /\ pc = "next_defer"
    /\ \E c \in {clearTempBreakpoints(world)} :
         Return("Next", runExit(c.w, loc.err).w, runExit(c.w, loc.err).err,
                [NoLast EXCEPT !.cterr = c.err,
                               !.temps = Cardinality(TempAddrs(world)),
                               !.hitT = loc.thread, !.hit = loc.hit, !.user = loc.user])
    /\ UNCHANGED <<hist, nops>>

Next ==
    \/ \E a \in UserAddrs : UserBreak(a)
    \/ \E a \in UserAddrs : UserClear(a)
    \/ \E t \in Threads : UserSwitchThread(t)
    \/ \E o \in Orders, br \in Branches : SessionStep(o, br)
    \/ \E t \in Threads, br \in BOOLEAN : SessionContinue(t, br)
    \/ \E e \in Events(world), br \in Branches : SessionContinueWait(e, br)
    \/ \E br \in BOOLEAN : SessionNext(br)
    \/ \E e \in Events(world) : SessionNextCurG(e)
    \/ \E t \in Threads, br \in BOOLEAN : SessionNextThread(t, br)
    \/ \E e \in Events(world) : SessionNextExiting(e)
    \/ \E e \in Events(world), br \in BOOLEAN : SessionNextWait(e, br)
    \/ \E e \in Events(world) : SessionNextTg(e)
    \/ SessionNextDefer
    \/ ManualStop
    \/ \E t \in Threads, br \in BOOLEAN : ThreadRun(t, br)

Spec == Init /\ [][Next]_vars

\* The sessions in which the user first sets breakpoints and then only
\* continues.  MixAddrs are the addresses the user asks for: enough of them
\* to fill the hardware slots and go on in software, two of them adjacent.
MixAddrs == {0, 1, 2, 6, 8}

MixNext ==
    \/ \E a \in MixAddrs : nops = 0 /\ UserBreak(a)
    \/ \E t \in Threads, br \in BOOLEAN : SessionContinue(t, br)
    \/ \E e \in Events(world), br \in Branches : SessionContinueWait(e, br)
    \/ \E t \in Threads, br \in BOOLEAN : ThreadRun(t, br)

MixSpec == Init /\ [][MixNext]_vars

\* ------------------------------------------------------------- properties

\* Address a is held by a hardware slot or by the software map.
InTable(w, a) ==
    \/ \E i \in Slots : IsBP(w.HW[i]) /\ w.HW[i].Addr = a
    \/ IsBP(w.BPs[a])

\* The user's Clear(A) has just returned without error, and A is the
\* address of the last breakpoint the user set.
ClearedWhatWasSet ==
    /\ pc = "idle"
    /\ last.op = "Clear"
    /\ last.err = NoErr
    /\ last.addr = hist.set.addr

\* C1: after set(A) followed by clear(A), the byte at A in the target's
\* memory is the byte that was there before set(A), and neither the
\* hardware slots nor the software map hold a breakpoint at A.
C1_SetClearRestores ==
    ClearedWhatWasSet =>
        /\ world.mem[last.addr] = hist.set.byte
        /\ ~InTable(world, last.addr)

\* C1 happens with a software breakpoint, whose trap byte had overwritten
\* the instruction at A.
C1_Witness ==
    /\ ClearedWhatWasSet
    /\ ~world.hwok
    /\ hist.set.byte # TrapByte
    /\ ~world.gone

\* The hardware slots and the addresses of the software map that hold a
\* breakpoint at address a.
HWHolders(w, a) == {i \in Slots : IsBP(w.HW[i]) /\ w.HW[i].Addr = a}

SWHolders(w, a) == {b \in Addr : IsBP(w.BPs[b]) /\ w.BPs[b].Addr = a}

\* C2: in every reachable state of the session the hardware slot array
\* holds at most 4 breakpoints, and no address is held by more than one
\* breakpoint of the hardware slots and the software map together.
C2_SlotsAndAddresses ==
    /\ Cardinality({i \in DOMAIN world.HW : IsBP(world.HW[i])}) <= 4
    /\ \A a \in Addr :
         Cardinality(HWHolders(world, a)) + Cardinality(SWHolders(world, a)) <= 1

\* C2 happens with all four hardware slots taken and a software breakpoint
\* beside them.
C2_Witness ==
    /\ \A i \in Slots : IsBP(world.HW[i])
    /\ \E a \in Addr : IsBP(world.BPs[a])

\* The breakpoints of the table.
Table(w) ==
    {w.HW[i] : i \in {j \in Slots : IsBP(w.HW[j])}}
        \cup {w.BPs[a] : a \in {b \in Addr : IsBP(w.BPs[b])}}

\* The number of breakpoints of the table.
TableSize(w) ==
    Cardinality({i \in Slots : IsBP(w.HW[i])})
        + Cardinality({a \in Addr : IsBP(w.BPs[a])})

\* The ids of the breakpoints of the table.
TableIDs(w) == {b.ID : b \in Table(w)}

\* The ids in use are distinct, and were issued: they lie between 1 and
\* the counter.
IDsDistinct ==
    /\ Cardinality(TableIDs(world)) = TableSize(world)
    /\ \A id \in TableIDs(world) : 1 <= id /\ id <= world.idc

\* The counter never goes back, and a breakpoint that enters the table
\* carries an id above every id issued before.
IDsIncrease ==
    /\ world'.idc >= world.idc
    /\ \A id \in TableIDs(world') \ TableIDs(world) : id > world.idc

\* C3: every breakpoint id issued in a session is unique and ids increase
\* strictly in the order of issue, from 1 on; no id is issued again after
\* its breakpoint was cleared, be it by step-over, Next or CallFn.
C3_IDsUniqueIncreasing == [](IDsDistinct) /\ [][IDsIncrease]_vars

\* C3 happens when step-over has installed the breakpoint it had cleared
\* again, under a new id, beside another breakpoint.
C3_Witness ==
    /\ pc = "idle"
    /\ last.op \in {"Step", "Continue"}
    /\ TableSize(world) >= 2
    /\ ~world.hwok
    /\ world.idc > TableSize(world)
    /\ \E a \in UserAddrs : IsBP(world.BPs[a]) /\ ~world.BPs[a].Temp /\ world.BPs[a].ID = world.idc

\* The step in which the deferred clearTempBreakpoints of next runs.
ClearTempStep == pc = "next_defer" /\ pc' # "next_defer"

\* Every breakpoint that is not temp is, after the step, where it was:
\* the same record in the same slot or under the same address, and for a
\* software breakpoint the trap byte still in memory.
NonTempPreserved ==
    /\ \A i \in Slots :
         (IsBP(world.HW[i]) /\ ~world.HW[i].Temp) => world'.HW[i] = world.HW[i]
    /\ \A a \in Addr :
         (IsBP(world.BPs[a]) /\ ~world.BPs[a].Temp) =>
             (world'.BPs[a] = world.BPs[a] /\ world'.mem[a] = world.mem[a])

\* C4 (as stated): after clearTempBreakpoints returns no temp breakpoint
\* remains in the hardware slots or the software map, and every breakpoint
\* that is not temp is preserved exactly.
C4_AsStated ==
    [][ClearTempStep => (TempAddrs(world') = {} /\ NonTempPreserved)]_vars

\* C4 (amended): after clearTempBreakpoints returns without error no temp
\* breakpoint remains; whatever it returns, every breakpoint that is not
\* temp is preserved exactly.
C4_ClearTempWhenNoError ==
    [][ClearTempStep =>
          /\ last'.cterr = NoErr => TempAddrs(world') = {}
          /\ NonTempPreserved]_vars

\* C4 happens when clearTempBreakpoints has removed temp breakpoints
\* without error and a breakpoint of the user is still in the table.
C4_Witness ==
    /\ pc = "idle"
    /\ last.op = "Next"
    /\ last.cterr = NoErr
    /\ last.temps > 0
    /\ TempAddrs(world) = {}
    /\ \E b \in Table(world) : ~b.Temp

\* C5: whenever the session operation Next returns, with success or with
\* an error, no temp breakpoint remains in the hardware slots or the
\* software map.
C5_NoTempAfterNext ==
    (pc = "idle" /\ last.op = "Next") => TempAddrs(world) = {}

\* Every thread is in ptrace-stop.
AllStopped(w) == \A t \in Threads : w.tst[t] = "stopped"

\* C6: every operation executed through run starts its work function
\* with halt false, running true and no current breakpoint, and when it
\* has returned running is false, whatever the outcome.
C6_RunWrapper ==
    /\ hist.fnEntry.set =>
           /\ ~hist.fnEntry.halt
           /\ hist.fnEntry.running
           /\ hist.fnEntry.cb = NoBP
    /\ (pc = "idle" /\ last.op \in {"Step", "Continue", "Next"}) => ~world.running

\* C6 happens when a Continue, the last call of the session, has entered
\* its work function through run and has returned from run with the error
\* of that function (the process exited while it waited).
C6_Witness ==
    /\ pc = "idle"
    /\ last.op = "Continue"
    /\ last.err = "ProcessExitedError"
    /\ hist.fnEntry.set
    /\ nops = MaxOps

\* The trapWait of Continue's resume takes an event.
ContinueTakesEvent ==
    /\ pc = "cont_wait"
    /\ \E t \in Threads : world.pend[t] # "" /\ world'.pend[t] = ""

\* C7: if RequestManualStop is called while a Continue is in flight, the
\* Continue returns without error at the next stop its wait receives,
\* running is then false and every thread is in ptrace-stop.
C7_ManualStopEndsContinue ==
    [][(ContinueTakesEvent /\ hist.msDuring /\ ~world.gone) =>
          /\ pc' = "idle"
          /\ last'.err = NoErr
          /\ ~world'.running
          /\ AllStopped(world')]_vars

\* The user calls Step, Continue or Next.
RunOpCalled ==
    /\ pc = "idle"
    /\ nops' = nops + 1
    /\ pc' # "idle" \/ last'.op \in {"Step", "Continue", "Next"}

\* C8: once the session has recorded that the process exited, every
\* Continue, Step or Next fails at once with ProcessExitedError and
\* leaves the session and the threads as they were.
C8_ExitedFailsAtOnce ==
    [][(RunOpCalled /\ world.exited) =>
          /\ pc' = "idle"
          /\ last'.err = "ProcessExitedError"
          /\ world' = world]_vars

\* C9: when the Next of some thread reports GoroutineExitingError, the
\* session operation Next does not abort with that error.
C9_GoroutineExitingNotFatal ==
    (pc = "idle" /\ last.op = "Next") => last.err # "GoroutineExitingError"

\* C10: when a thread stops at a breakpoint B that is not temp, Continue
\* halts and returns without error, the current thread is the thread that
\* stopped and the current breakpoint is B, a breakpoint of the table.
C10_ContinueReportsBreakpoint ==
    (pc = "idle" /\ last.op = "Continue" /\ last.hitID # 0) =>
        /\ last.err = NoErr
        /\ AllStopped(world)
        /\ world.CT = last.hitT
        /\ world.CB.ID = last.hitID
        /\ world.CB \in Table(world)

\* The sessions in which the user sets breakpoints first and then
\* continues, clears breakpoints and steps: a software breakpoint can be
\* hit while the hardware slots are full, and a slot can be freed after.
\* OverAddrs are the addresses the user asks for; none of them is just
\* behind the PC a thread starts at.
OverAddrs == {0, 1, 2, 5, 6}

OverNext ==
    \/ \E a \in OverAddrs : nops = 0 /\ UserBreak(a)
    \/ \E a \in OverAddrs : UserClear(a)
    \/ \E o \in Orders, br \in Branches : SessionStep(o, br)
    \/ \E t \in Threads, br \in BOOLEAN : SessionContinue(t, br)
    \/ \E e \in Events(world), br \in Branches : SessionContinueWait(e, br)
    \/ \E t \in Threads, br \in BOOLEAN : ThreadRun(t, br)

OverSpec == Init /\ [][OverNext]_vars

\* Thread t is stopped with the software breakpoint at a just behind its PC
\* (the test of Step and Continue for a thread stopped on a breakpoint).
StoppedOnSW(w, t, a) ==
    /\ PtraceOK(w, t)
    /\ a = w.tpc[t] - 1
    /\ IsBP(SWAt(w, a))

\* This step is a Step of the session that returns nil and has stepped
\* thread t, or the iteration of Continue's loop that has resumed thread t.
SteppedOrResumed(t) ==
    \/ /\ pc = "idle" /\ pc' = "idle" /\ nops' = nops + 1
       /\ last'.op = "Step" /\ last'.err = NoErr
       /\ ~blocked(world, t)
    \/ /\ pc \in {"idle", "cont_loop"} /\ pc' \in {"cont_loop", "cont_wait"}
       /\ world.tst[t] = "stopped" /\ world'.tst[t] = "running"

\* C11: when Step, or the step-over inside Continue, has returned for a
\* thread that was stopped on a software breakpoint at A, the thread has
\* executed the one instruction at A, a breakpoint at A is in the table
\* with the temp flag it had, the byte at A is the trap byte and the
\* recorded original byte is the byte of the instruction.
C11_StepOverReinstalls ==
    [][\A t \in Threads, a \in Addr :
         (StoppedOnSW(world, t, a) /\ SteppedOrResumed(t)) =>
             /\ world'.tpc[t] \in {Successor(a, t, b) : b \in BOOLEAN}
             /\ IsBP(FindBreakpoint(world', a))
             /\ FindBreakpoint(world', a).Temp = SWAt(world, a).Temp
             /\ world'.mem[a] = TrapByte
             /\ FindBreakpoint(world', a).OriginalData = <<OrigMem[a]>>]_vars

\* Next has returned nil from the end of its wait loop: a trap of thread
\* last.hitT ended it.
NextReachedDestination ==
    /\ pc = "idle"
    /\ last.op = "Next"
    /\ last.err = NoErr
    /\ last.hitT # 0

\* C12: Next halts and returns nil at a trap only when the trap is a temp
\* breakpoint hit; the breakpoint is then cleared, the PC of the stopped
\* thread is the breakpoint's address and that thread is the current one.
C12_NextEndsAtTempOnly ==
    NextReachedDestination =>
        /\ IsBP(last.hit)
        /\ last.hit.Temp
        /\ ~InTable(world, last.hit.Addr)
        /\ world.tpc[last.hitT] = last.hit.Addr
        /\ world.CT = last.hitT

\* The PCs FindBreakpoint is asked about: every address of the target and
\* one before and one past them.
ProbePCs == (0 - 1) .. 14

\* C13: for every PC P, FindBreakpoint(P) returns a breakpoint iff some
\* breakpoint of the hardware slots or of the software map has address P,
\* and the breakpoint it returns is that one.
C13_FindBreakpointAgrees ==
    \A p \in ProbePCs :
        /\ IsBP(FindBreakpoint(world, p)) <=> (\E b \in Table(world) : b.Addr = p)
        /\ IsBP(FindBreakpoint(world, p)) =>
               /\ FindBreakpoint(world, p) \in Table(world)
               /\ FindBreakpoint(world, p).Addr = p

\* C13 happens when the lookup finds a breakpoint of a hardware slot and a
\* breakpoint of the software map, and misses at an address between them
\* that holds none.
C13_Witness ==
    /\ \E i \in Slots :
           IsBP(world.HW[i]) /\ FindBreakpoint(world, world.HW[i].Addr) = world.HW[i]
    /\ \E q \in Addr :
           IsBP(world.BPs[q]) /\ FindBreakpoint(world, q) = world.BPs[q]
    /\ \E r \in Addr :
           ~InTable(world, r) /\ ~IsBP(FindBreakpoint(world, r))

\* The sessions attached while thread 1 is in main.helper, in which the
\* user sets breakpoints first and then calls Next.  FrameAddrs are the
\* addresses the user asks for: the PC of the next line and the return
\* address of the frame.
FrameAddrs == {3, 11}

FrameInit ==
    /\ \E hwok \in BOOLEAN : world = Attached(hwok, 10)
    /\ pc = "idle"
    /\ loc = NoLoc
    /\ last = NoLast
    /\ hist = NoHist
    /\ nops = 0

FrameNext ==
    \/ \E a \in FrameAddrs : nops = 0 /\ UserBreak(a)
    \/ \E br \in BOOLEAN : SessionNext(br)
    \/ \E e \in Events(world) : SessionNextCurG(e)
    \/ \E t \in Threads, br \in BOOLEAN : SessionNextThread(t, br)
    \/ \E e \in Events(world) : SessionNextExiting(e)
    \/ \E e \in Events(world), br \in BOOLEAN : SessionNextWait(e, br)
    \/ \E e \in Events(world) : SessionNextTg(e)
    \/ SessionNextDefer
    \/ \E t \in Threads, br \in BOOLEAN : ThreadRun(t, br)

FrameSpec == FrameInit /\ [][FrameNext]_vars

\* The PC that the Next of thread t starts from: the address of the
\* software breakpoint the thread is stopped on, or its PC.
NextCurPC(w, t) ==
    IF IsBP(SWAt(w, w.tpc[t] - 1)) THEN w.tpc[t] - 1 ELSE w.tpc[t]

\* The lines that can follow the line of thread t.
CandidateLines(w, t) ==
    LET fl == PCToLine(NextCurPC(w, t))
        ls == NextLines(fl.File, fl.Line)
    IN {ls[k] : k \in DOMAIN ls}

\* The PCs that the line table maps to a candidate line of thread t.
CandidatePCs(w, t) ==
    LET file == PCToLine(NextCurPC(w, t)).File
    IN UNION {{AllPCsForFileLine(file, l)[k] : k \in DOMAIN AllPCsForFileLine(file, l)} :
                 l \in CandidateLines(w, t)}

\* The addresses chosen for thread t: each candidate PC other than the
\* current one, or the return address of the frame when the frame of the
\* current PC does not cover it.
ChosenAddrs(w, t) ==
    {IF Cover(PCToFunc(NextCurPC(w, t)), p) THEN p ELSE LittleEndianUint64(StackBytes(t)) :
        p \in CandidatePCs(w, t) \ {NextCurPC(w, t)}}

TableAddrs(w) == {a \in Addr : InTable(w, a)}

\* This step is the iteration of next's loop in which the Next of thread t
\* has set its breakpoints from a non-empty set of lines and has resumed
\* the thread.
ThreadNextDone(t) ==
    /\ pc = "next_loop"
    /\ pc' \in {"next_loop", "next_wait"}
    /\ loc.todo \ loc'.todo = {t}
    /\ ~blocked(world, t)
    /\ CandidateLines(world, t) # {}

Armed(w, a) ==
    \/ IsBP(w.BPs[a]) /\ w.mem[a] = TrapByte
    \/ \E i \in Slots, t \in Threads :
           IsBP(w.HW[i]) /\ w.HW[i].Addr = a /\ w.dr[t][i] = a

\* C15: when Next returns, every address that held a non-temp breakpoint
\* when Next was called (one of Next's candidate addresses, or an address a
\* thread was stepped over, included) still holds a breakpoint that is not
\* temp and is armed.
C15_NextKeepsUserBreakpoints ==
    (pc = "idle" /\ last.op = "Next") =>
        \A a \in last.user :
            /\ IsBP(FindBreakpoint(world, a))
            /\ ~FindBreakpoint(world, a).Temp
            /\ Armed(world, a)

\* C15 happens when Next has returned at the trap of a software breakpoint
\* of the user that held its only candidate address: the breakpoint was
\* already there when next tried to set its temp breakpoint, and no temp
\* breakpoint was left to clear.
C15_Witness ==
    /\ pc = "idle"
    /\ last.op = "Next"
    /\ last.err = NoErr
    /\ last.hitT # 0
    /\ IsBP(last.hit)
    /\ last.hit.Addr \in last.user
    /\ last.hit.OriginalData # <<>>
    /\ last.temps = 0
    /\ world.tpc[last.hitT] = last.hit.Addr + 1

\* This step is the wait loop of next taking the trap of a thread whose
\* tasklet is not the one that issued Next.
NextTakesOtherTrap ==
    /\ pc = "next_wait"
    /\ pc' = "next_tg"
    /\ GOf(loc'.thread) # loc.curg

\* C16: while Next waits, the trap of a tasklet other than the one that
\* issued Next consumes no temp breakpoint: every temp breakpoint installed
\* before the trap is still installed after it was handled.
C16_OtherTaskletKeepsTemps ==
    [][NextTakesOtherTrap => TempAddrs(world) \subseteq TempAddrs(world')]_vars

\* This step is an iteration of the loop over the threads, in Next or in
\* Continue, that ends the operation because a request to set or clear a
\* breakpoint, or to resume, was refused.
LoopRequestRefused ==
    \/ pc = "next_loop" /\ pc' = "next_defer" /\ loc'.err = "PtraceError"
    \/ /\ pc = "cont_loop" /\ pc' = "idle"
       /\ last'.op = "Continue" /\ last'.err \in {"PtraceError", "CouldNotStep"}

\* C17: the engine reads and writes through a thread only while the thread
\* is in ptrace-stop: in the loops of Next and Continue over the threads no
\* request is made through a thread that is running, so that none is
\* refused while the process exists.
C17_AccessOnlyWhenStopped ==
    [][LoopRequestRefused => world'.gone]_vars

\* The platform starts to refuse single-step requests.
StepFault ==
    /\ pc = "idle"
    /\ ~world.sfail
    /\ ~world.gone
    /\ world' = [world EXCEPT !.sfail = TRUE]
    /\ UNCHANGED <<pc, loc, last, hist, nops>>

\* The sessions attached while thread 1 is at the last line of its
\* function, in which the user sets breakpoints first and then steps and
\* continues, and in which single-step requests can start to fail.
\* FaultAddrs are the addresses the user asks for: the last line and the
\* entry of runtime.goexit, which the function returns into.
FaultAddrs == {2, 3}

FaultInit ==
    /\ \E hwok \in BOOLEAN : world = Attached(hwok, 2)
    /\ pc = "idle"
    /\ loc = NoLoc
    /\ last = NoLast
    /\ hist = NoHist
    /\ nops = 0

FaultNext ==
    \/ \E a \in FaultAddrs : nops = 0 /\ UserBreak(a)
    \/ \E o \in Orders, br \in Branches : SessionStep(o, br)
    \/ \E t \in Threads, br \in BOOLEAN : SessionContinue(t, br)
    \/ \E e \in Events(world), br \in Branches : SessionContinueWait(e, br)
    \/ \E t \in Threads, br \in BOOLEAN : ThreadRun(t, br)
    \/ StepFault

FaultSpec == FaultInit /\ [][FaultNext]_vars

\* This step is a call of Step or Continue that has returned or has ended
\* the controller.
StepOrContinueCalled ==
    /\ pc = "idle"
    /\ nops' = nops + 1
    /\ pc' = "crashed" \/ (pc' = "idle" /\ last'.op \in {"Step", "Continue"})

\* Step is called while single-step requests fail and every thread it
\* steps is stopped on a software breakpoint that can be cleared.
StepOverWillFail ==
    /\ world.sfail
    /\ last'.op = "Step"
    /\ PtraceOK(world, world.CT)
    /\ \E t \in Threads : ~blocked(world, t)
    /\ \A t \in Threads :
         ~blocked(world, t) => StoppedOnSW(world, t, world.tpc[t] - 1)

\* C18: when the single-step fails while Step steps a thread over a
\* software breakpoint, Step returns an error; and when re-installing the
\* breakpoint fails, Step returns an error and does not crash.
C18_StepOverErrors ==
    [][StepOrContinueCalled =>
           /\ pc' # "crashed"
           /\ StepOverWillFail => last'.err # NoErr]_vars

\* GoroutinesInfo(), called by the user.
UserGoroutinesInfo ==
    /\ pc = "idle"
    /\ Call
    /\ \E g \in {GoroutinesInfo(world)} :
         Return("GoroutinesInfo", g.w, g.err, [NoLast EXCEPT !.allg = g.allg])
    /\ UNCHANGED hist

\* The sessions in which the user lists the tasklets, switches thread and
\* lets threads run, on a target whose task list has any length up to MaxG
\* and that refuses any of the reads of the walk.
GInfoInit ==
    /\ \E n \in 0 .. MaxG, f \in SUBSET Reads, b \in BOOLEAN :
         world = [Attached(TRUE, 0) EXCEPT !.allglen = n, !.rfail = f, !.rnil = b]
    /\ pc = "idle"
    /\ loc = NoLoc
    /\ last = NoLast
    /\ hist = NoHist
    /\ nops = 0

GInfoNext ==
    \/ UserGoroutinesInfo
    \/ \E t \in Threads : UserSwitchThread(t)

GInfoSpec == GInfoInit /\ [][GInfoNext]_vars

\* The reads of a walk in which none fails.
WalkReads(w) == {ReadAllglen, ReadAllg} \cup {ReadG(i) : i \in 1 .. w.allglen}

\* GoroutinesInfo has been called and has returned or ended the controller.
GoroutinesInfoCalled == pc \in {"idle", "crashed"} /\ last.op = "GoroutinesInfo"

\* C19: GoroutinesInfo returns either the complete list of the allglen
\* tasklets or an error and no list; when one of the reads of the walk
\* fails it returns an error and no list, and does not crash.
C19_GoroutinesInfoAllOrError ==
    GoroutinesInfoCalled =>
        /\ pc # "crashed"
        /\ last.err = NoErr =>
             last.allg = [i \in 1 .. world.allglen |-> AllG(i)]
        /\ last.err # NoErr => last.allg = <<>>
        /\ (WalkReads(world) \cap world.rfail # {}) => last.err # NoErr

\* The controller is inside CallFn, at its trapWait.
InCallFn == pc \in {"next_curg", "next_exiting", "next_tg"}

\* Thread call.t is stopped at the breakpoint that CallFn set for the call.
AtCallBP(w, call) ==
    /\ w.tst[call.t] = "stopped"
    /\ \/ w.tpc[call.t] = call.bp
       \/ IsBP(SWAt(w, call.bp)) /\ w.tpc[call.t] = call.bp + 1

\* In this step the trapWait of CallFn takes the stop of thread t as a trap
\* and returns no error, so that CallFn calls fn.
CallbackRunsOnTrapOf(t) ==
    /\ InCallFn
    /\ pc' # pc
    /\ world.pend[t] = "trap"
    /\ world'.pend[t] = ""
    /\ trapWait(world, [tid |-> t, kind |-> "trap"]).err = NoErr

\* C20: CallFn calls the callback only when the thread of the call has
\* itself stopped at the breakpoint CallFn set at End - 2; a trap of
\* another thread, or at another address, does not make it run.
C20_CallbackOnOwnTrapOnly ==
    [][\A t \in Threads :
          CallbackRunsOnTrapOf(t) => t = loc.call.t /\ AtCallBP(world, loc.call)]_vars

\* DebuggedProcess.Continue, an iteration of its loop in which
\* thread.Continue finds thread t stopped on a software breakpoint and
\* calls thread.Step: the breakpoint is cleared and the PC is set back.
\* The controller is then inside Step, before the single-step; the
\* threads that the loop has resumed already go on running meanwhile.
SessionContinueOver(t) ==
    /\ \/ pc = "idle" /\ Call
       \/ pc = "cont_loop" /\ t \in loc.todo /\ UNCHANGED nops
    /\ CurrentPC(world, t).err = NoErr
    /\ IsBP(SWAt(world, CurrentPC(world, t).pc - 1))
    /\ \E todo \in {IF pc = "idle" THEN Threads ELSE loc.todo},
          bp \in {SWAt(world, CurrentPC(world, t).pc - 1)} :
         \E c \in {Clear(world, bp.Addr)} :
            /\ c.err = NoErr
            /\ \E sp \in {SetPC(c.w, t, bp.Addr)} :
                 /\ sp.err = NoErr
                 /\ Goto(sp.w, "cont_over",
                         [NoLoc EXCEPT !.todo = todo \ {t}, !.thread = t, !.hit = bp])
    /\ UNCHANGED hist

\* The rest of that iteration: the single-step of thread.Step and its
\* deferred function, then the resume of thread.Continue, and the loop
\* goes on as in SessionContinue.
SessionContinueOverEnd(br) ==
    /\ pc = "cont_over"
    /\ UNCHANGED nops
    /\ \E s \in {StepRestore(singleStep(world, loc.thread, br).w, loc.hit)} :
         \E c \in {IF s.err = "panic" THEN s
                   ELSE IF s.err # NoErr THEN [w |-> s.w, err |-> "CouldNotStep"]
                   ELSE resume(s.w, loc.thread)} :
            IF c.err # NoErr
            THEN /\ Return("Continue", c.w, c.err, [NoLast EXCEPT !.ms = hist.msDuring])
                 /\ hist' = [hist EXCEPT !.msDuring = FALSE]
            ELSE IF loc.todo # {}
            THEN /\ Goto(c.w, "cont_loop", [NoLoc EXCEPT !.todo = loc.todo])
                 /\ UNCHANGED hist
            ELSE \E e \in {runEnter(c.w)} :
                   IF e.err # NoErr
                   THEN /\ Return("Continue", e.w, e.err,
                                  [NoLast EXCEPT !.ms = hist.msDuring])
                        /\ hist' = [hist EXCEPT !.msDuring = FALSE]
                   ELSE /\ Goto(e.w, "cont_wait", NoLoc)
                        /\ hist' = [hist EXCEPT !.fnEntry = FnEntry(e.w)]

\* The sessions in which the user sets breakpoints and continues, with
\* the step-over of Continue's loop taken in its two parts.
RaceNext ==
    \/ \E a \in UserAddrs : UserBreak(a)
    \/ \E t \in Threads, br \in BOOLEAN : SessionContinue(t, br)
    \/ \E t \in Threads : SessionContinueOver(t)
    \/ \E br \in BOOLEAN : SessionContinueOverEnd(br)
    \/ \E e \in Events(world), br \in Branches : SessionContinueWait(e, br)
    \/ \E t \in Threads, br \in BOOLEAN : ThreadRun(t, br)

RaceSpec == Init /\ [][RaceNext]_vars

\* A software breakpoint is out of target memory for a step-over.
InStepOver == pc = "cont_over"

\* C21: no thread of the target is running while a software breakpoint is
\* out of target memory for a step-over.
C21_NoThreadRunsInStepOver ==
    InStepOver => \A u \in Threads : world.tst[u] # "running"

\* Thread t is stopped at a PC just past the address of a software
\* breakpoint whose trap byte is not what it executed last: it is there
\* for another reason.
StoppedPastSW(w, t) ==
    /\ PtraceOK(w, t)
    /\ IsBP(SWAt(w, w.tpc[t] - 1))
    /\ w.trapped[t] # w.tpc[t] - 1

\* The PCs at which thread t can be after it has executed, or tried to
\* execute, the instruction at its PC.
AfterOwnInstruction(w, t) ==
    {Exec1(w, t, b).w.tpc[t] : b \in BOOLEAN}

\* This step is a call of Step that returns nil.
StepReturnsNil ==
    /\ pc = "idle"
    /\ pc' = "idle"
    /\ nops' = nops + 1
    /\ last'.op = "Step"
    /\ last'.err = NoErr

\* C22: a thread that is stopped at PC p for another reason than the trap
\* byte of a software breakpoint at p - 1 executes the instruction at p
\* when it is stepped; its PC is not set back to p - 1.
C22_RewindOnlyAfterTrap ==
    [][\A t \in Threads :
          (StepReturnsNil /\ ~blocked(world, t) /\ StoppedPastSW(world, t)) =>
              \/ world'.gone
              \/ world'.tpc[t] \in AfterOwnInstruction(world, t)]_vars

\* This step is a call of Clear by the user that returns an error.
ClearReturnsError ==
    /\ pc = "idle"
    /\ pc' = "idle"
    /\ last'.op = "Clear"
    /\ last'.err # NoErr

\* C23: when Clear returns an error, the array of hardware breakpoints
\* and the map of software breakpoints are as they were before the call.
C23_ClearAllOrNothing ==
    [][ClearReturnsError => world'.HW = world.HW /\ world'.BPs = world.BPs]_vars

====
